---- MODULE Spec2Model ----
(***************************************************************************)
(* Inverse Time Limit Theory simulations: the RK4 trajectory simulation    *)
(* (Adwanced_simulation.py), the Euler particle-infall simulation and the  *)
(* dilation curve sampler (itlt_simulation.py).                            *)
(*                                                                         *)
(* Every number of the programs is an IEEE-754 binary64 value (a Python    *)
(* float or a numpy float64).  The model computes with the same values:    *)
(* a float is a sign, a 53-bit significand and a binary exponent, and each *)
(* arithmetic operation rounds its exact result to nearest, ties to even.  *)
(* Significands exceed the integers of the model checker, so they are      *)
(* kept as little-endian sequences of 14-bit limbs.  Exponents are not     *)
(* bounded: no value of these programs comes near overflow or underflow.   *)
(***************************************************************************)
EXTENDS Integers, Sequences, FiniteSets, TLC

\* ------------------------------------------------------------------------
\* Evaluation order.  An operator's argument is evaluated where it is used,
\* as often as it is used.  Bind(v, F) is F(v) with v evaluated once, first.
\* ------------------------------------------------------------------------
Bind(v, F(_)) == CHOOSE r \in {F(x) : x \in {v}} : TRUE

Bind2(u, v, F(_, _)) == CHOOSE r \in {F(x, y) : x \in {u}, y \in {v}} : TRUE

\* ------------------------------------------------------------------------
\* Natural numbers of arbitrary size: little-endian limb sequences, no
\* leading zero limb, zero is <<>>.
\* ------------------------------------------------------------------------
LimbBits == 14
Base == 16384
Precision == 53

Pow2(k) == 2 ^ k

Limb(a, i) == IF i >= 1 /\ i <= Len(a) THEN a[i] ELSE 0

Max(x, y) == IF x >= y THEN x ELSE y

\* a without its leading zero limbs
Trim(a0) ==
  Bind(a0 \o <<>>, LAMBDA a :
    IF Len(a) = 0 \/ a[Len(a)] # 0 THEN a
    ELSE IF \A i \in 1..Len(a) : a[i] = 0 THEN <<>>
    ELSE SubSeq(a, 1, CHOOSE i \in 1..Len(a) :
                        a[i] # 0 /\ \A j \in (i + 1)..Len(a) : a[j] = 0))

\* the carry into limb i of a + b: the nearest limb below i whose sum is not
\* Base - 1 decides it
RECURSIVE CarryIn(_, _, _)
CarryIn(a, b, i) ==
  IF i = 1 THEN 0
  ELSE IF Limb(a, i - 1) + Limb(b, i - 1) >= Base THEN 1
  ELSE IF Limb(a, i - 1) + Limb(b, i - 1) < Base - 1 THEN 0
  ELSE CarryIn(a, b, i - 1)

BAdd(a0, b0) ==
  Bind2(a0, b0, LAMBDA a, b :
    Trim([i \in 1..(Max(Len(a), Len(b)) + 1) |->
            (Limb(a, i) + Limb(b, i) + CarryIn(a, b, i)) % Base]))

\* the borrow from limb i of a - b: the nearest limb below i where a and b
\* differ decides it
RECURSIVE BorrowIn(_, _, _)
BorrowIn(a, b, i) ==
  IF i = 1 THEN 0
  ELSE IF Limb(a, i - 1) < Limb(b, i - 1) THEN 1
  ELSE IF Limb(a, i - 1) > Limb(b, i - 1) THEN 0
  ELSE BorrowIn(a, b, i - 1)

\* a - b, for a >= b
BSub(a0, b0) ==
  Bind2(a0, b0, LAMBDA a, b :
    Trim([i \in 1..Len(a) |->
            (a[i] - Limb(b, i) - BorrowIn(a, b, i) + Base) % Base]))

\* the limbs from i down compared, the highest difference deciding
RECURSIVE CmpFrom(_, _, _)
CmpFrom(a, b, i) ==
  IF i = 0 THEN 0
  ELSE IF a[i] < b[i] THEN -1
  ELSE IF a[i] > b[i] THEN 1
  ELSE CmpFrom(a, b, i - 1)

\* -1, 0, 1 as a < b, a = b, a > b
BCmp(a0, b0) ==
  Bind2(a0, b0, LAMBDA a, b :
    IF Len(a) < Len(b) THEN -1
    ELSE IF Len(a) > Len(b) THEN 1
    ELSE CmpFrom(a, b, Len(a)))

\* the number whose limb sums are s[i] < 2^31
Normalise(s0) ==
  Bind(s0 \o <<>>, LAMBDA s :
    BAdd(BAdd([i \in 1..Len(s) |-> s[i] % Base],
              <<0>> \o [i \in 1..Len(s) |-> (s[i] \div Base) % Base]),
         <<0, 0>> \o [i \in 1..Len(s) |-> s[i] \div (Base * Base)]))

\* a * k, for 0 <= k < Base
BMulSmall(a0, k0) ==
  Bind2(a0, k0, LAMBDA a, k :
    BAdd([i \in 1..Len(a) |-> (a[i] * k) % Base],
         <<0>> \o [i \in 1..Len(a) |-> (a[i] * k) \div Base]))

\* column k of the product of a and b, b of at most 7 limbs
ColSum(a, b, k) ==
  Limb(a, k) * Limb(b, 1) + Limb(a, k - 1) * Limb(b, 2)
  + Limb(a, k - 2) * Limb(b, 3) + Limb(a, k - 3) * Limb(b, 4)
  + Limb(a, k - 4) * Limb(b, 5) + Limb(a, k - 5) * Limb(b, 6)
  + Limb(a, k - 6) * Limb(b, 7)

\* a * b, for operands of which one has at most 7 limbs
BMul(a0, b0) ==
  Bind2(a0, b0, LAMBDA a, b :
    IF Len(a) = 0 \/ Len(b) = 0 THEN <<>>
    ELSE IF Len(b) <= Len(a)
    THEN Normalise([k \in 1..(Len(a) + Len(b) - 1) |-> ColSum(a, b, k)])
    ELSE Normalise([k \in 1..(Len(a) + Len(b) - 1) |-> ColSum(b, a, k)]))

\* a * 2^k
ShiftLeft(a0, k0) ==
  Bind2(a0, k0, LAMBDA a, k :
    IF Len(a) = 0 THEN a
    ELSE Bind(Pow2(k % LimbBits), LAMBDA f :
           [i \in 1..(k \div LimbBits) |-> 0]
           \o Trim([i \in 1..(Len(a) + 1) |->
                      ((Limb(a, i) * f) % Base) + ((Limb(a, i - 1) * f) \div Base)])))

\* a div 2^k
ShiftRight(a0, k0) ==
  Bind2(a0, k0, LAMBDA a, k :
    LET w == k \div LimbBits
        f == Pow2(k % LimbBits)
    IN  Trim([i \in 1..(Len(a) - w) |->
                (a[i + w] \div f) + (Limb(a, i + w + 1) % f) * (Base \div f)]))

\* the number of bits of a limb
BitLenSmall(x) ==
  IF x = 0 THEN 0
  ELSE CHOOSE k \in 1..LimbBits : Pow2(k - 1) <= x /\ x < Pow2(k)

BitLen(a0) ==
  Bind(a0, LAMBDA a :
    IF Len(a) = 0 THEN 0
    ELSE (Len(a) - 1) * LimbBits + BitLenSmall(a[Len(a)]))

TestBit(a, i) == (Limb(a, (i \div LimbBits) + 1) \div Pow2(i % LimbBits)) % 2

\* some bit of index < i is set
AnyBelow(a, i) ==
  \/ \E j \in 1..(i \div LimbBits) : Limb(a, j) # 0
  \/ Limb(a, (i \div LimbBits) + 1) % Pow2(i % LimbBits) # 0

\* rem and q after as many subtractions of d as rem allows, at most 3
Correct(r0, d, q) ==
  IF BCmp(r0, d) < 0 THEN [q |-> q, r |-> r0]
  ELSE Bind(BSub(r0, d), LAMBDA r1 :
         IF BCmp(r1, d) < 0 THEN [q |-> q + 1, r |-> r1]
         ELSE Bind(BSub(r1, d), LAMBDA r2 :
                IF BCmp(r2, d) < 0 THEN [q |-> q + 2, r |-> r2]
                ELSE [q |-> q + 3, r |-> BSub(r2, d)]))

\* one quotient limb: [q |-> rem div d, r |-> rem mod d], for rem < d * Base
\* and the top limb of d >= Base / 2.  The estimate from the top limbs is
\* at most 3 too low.
QuotDigit(rem0, d) ==
  Bind(rem0, LAMBDA rem :
    IF BCmp(rem, d) < 0 THEN [q |-> 0, r |-> rem]
    ELSE Bind((Limb(rem, Len(d) + 1) * Base + Limb(rem, Len(d))) \div (d[Len(d)] + 1),
              LAMBDA qh :
           Bind(BSub(rem, BMulSmall(d, qh)), LAMBDA r0 : Correct(r0, d, qh))))

\* schoolbook long division from limb i of n down
RECURSIVE DivLoop(_, _, _, _, _)
DivLoop(n, d, i, rem, q) ==
  IF i = 0 THEN [q |-> Trim(q), r |-> rem]
  ELSE Bind(QuotDigit(IF Len(rem) = 0 /\ n[i] = 0 THEN <<>> ELSE <<n[i]>> \o rem, d),
            LAMBDA fx :
         Bind2(i - 1, <<fx.q>> \o q, LAMBDA i1, q1 : DivLoop(n, d, i1, fx.r, q1)))

\* [q |-> n div d, r |-> (n mod d) * 2^s], s the normalising shift; d # 0.
\* The top Len(d) - 1 limbs of n are below d and start as the remainder.
BDivMod(n0, d0) ==
  Bind2(n0, d0, LAMBDA n, d :
    Bind(LimbBits - BitLenSmall(d[Len(d)]), LAMBDA s :
      Bind2(ShiftLeft(n, s), ShiftLeft(d, s), LAMBDA ns, ds :
        IF Len(ns) < Len(ds) THEN [q |-> <<>>, r |-> ns]
        ELSE DivLoop(ns, ds, Len(ns) - Len(ds) + 1,
                     SubSeq(ns, Len(ns) - Len(ds) + 2, Len(ns)), <<>>))))

\* Newton's iteration from above
RECURSIVE SqrtLoop(_, _)
SqrtLoop(n, x) ==
  Bind(ShiftRight(BAdd(x, BDivMod(n, x).q), 1), LAMBDA y :
    IF BCmp(y, x) >= 0 THEN x ELSE SqrtLoop(n, y))

\* the limbs of a machine integer 0 <= k < 2^31
BigOf(k) == Trim(<<k % Base, (k \div Base) % Base, k \div (Base * Base)>>)

\* floor of the square root of 1 <= k < 2^28, by Newton's iteration from
\* x >= the root
RECURSIVE SmallSqrt(_, _)
SmallSqrt(k, x) ==
  Bind((x + (k \div x)) \div 2, LAMBDA y : IF y >= x THEN x ELSE SmallSqrt(k, y))

\* floor of the square root.  The iteration starts above the root, from the
\* root of the top two limbs of n.
ISqrt(n0) ==
  Bind(n0, LAMBDA n :
    IF Len(n) = 0 THEN n
    ELSE IF Len(n) <= 2 THEN BigOf(SmallSqrt(Limb(n, 2) * Base + n[1], Base))
    ELSE Bind(ShiftRight(n, (Len(n) - 2) * LimbBits), LAMBDA top :
           SqrtLoop(n, ShiftLeft(BigOf(SmallSqrt(top[2] * Base + top[1], Base) + 1),
                                 (Len(n) - 2) * (LimbBits \div 2)))))

\* ------------------------------------------------------------------------
\* binary64 values: (-1)^s * m * 2^e with 2^52 <= m < 2^53, or zero
\* ------------------------------------------------------------------------
Zero == [s |-> 0, m |-> <<>>, e |-> 0]

IsZero(a) == Len(a.m) = 0

\* the float nearest to (-1)^s * n * 2^e (plus a nonzero fraction of the
\* last bit of n when sticky), ties to even
FRound(s, n0, e, sticky0) ==
  Bind2(n0, sticky0, LAMBDA n, sticky :
    Bind(BitLen(n), LAMBDA len :
      IF len = 0 THEN Zero
      ELSE IF len <= Precision
      THEN [s |-> s, m |-> ShiftLeft(n, Precision - len), e |-> e - (Precision - len)]
      ELSE Bind(ShiftRight(n, len - Precision), LAMBDA q :
             Bind(IF /\ TestBit(n, len - Precision - 1) = 1
                     /\ \/ sticky
                        \/ AnyBelow(n, len - Precision - 1)
                        \/ q[1] % 2 = 1
                  THEN BAdd(q, <<1>>) ELSE q,
                  LAMBDA q1 :
               IF BitLen(q1) > Precision
               THEN [s |-> s, m |-> ShiftRight(q1, 1), e |-> e + (len - Precision) + 1]
               ELSE [s |-> s, m |-> q1, e |-> e + (len - Precision)]))))

FNeg(a0) == Bind(a0, LAMBDA a : IF IsZero(a) THEN a ELSE [a EXCEPT !.s = 1 - a.s])

\* a + b, for |a| at the larger or equal exponent
FAddOrdered(a, b) ==
  IF a.e - b.e > 64 THEN a
  ELSE Bind(ShiftLeft(a.m, a.e - b.e), LAMBDA x :
         Bind(BCmp(x, b.m), LAMBDA c :
           IF a.s = b.s THEN FRound(a.s, BAdd(x, b.m), b.e, FALSE)
           ELSE IF c = 0 THEN Zero
           ELSE IF c > 0 THEN FRound(a.s, BSub(x, b.m), b.e, FALSE)
           ELSE FRound(b.s, BSub(b.m, x), b.e, FALSE)))

FAdd(a0, b0) ==
  Bind2(a0, b0, LAMBDA a, b :
    IF IsZero(a) THEN b
    ELSE IF IsZero(b) THEN a
    ELSE IF a.e >= b.e THEN FAddOrdered(a, b) ELSE FAddOrdered(b, a))

FSub(a, b) == FAdd(a, FNeg(b))

FMul(a0, b0) ==
  Bind2(a0, b0, LAMBDA a, b :
    IF IsZero(a) \/ IsZero(b) THEN Zero
    ELSE FRound((a.s + b.s) % 2, BMul(a.m, b.m), a.e + b.e, FALSE))

\* a / b, b # 0 (no division of these programs has a zero divisor)
FDiv(a0, b0) ==
  Bind2(a0, b0, LAMBDA a, b :
    IF IsZero(a) \/ IsZero(b) THEN Zero
    ELSE Bind(BDivMod(ShiftLeft(a.m, 56), b.m), LAMBDA dm :
           FRound((a.s + b.s) % 2, dm.q, a.e - b.e - 56, Len(dm.r) # 0)))

\* sqrt(a), a >= 0
FSqrt(a0) ==
  Bind(a0, LAMBDA a :
    IF IsZero(a) THEN Zero
    ELSE Bind(IF a.e % 2 = 0 THEN 58 ELSE 57, LAMBDA k :
           Bind(ShiftLeft(a.m, k), LAMBDA n :
             Bind(ISqrt(n), LAMBDA r :
               FRound(0, r, (a.e - k) \div 2, BMul(r, r) # n)))))

\* -1, 0, 1 as a < b, a = b, a > b
FCmp(a0, b0) ==
  Bind2(a0, b0, LAMBDA a, b :
    IF IsZero(a) THEN (IF IsZero(b) THEN 0 ELSE IF b.s = 0 THEN -1 ELSE 1)
    ELSE IF IsZero(b) THEN (IF a.s = 0 THEN 1 ELSE -1)
    ELSE IF a.s # b.s THEN (IF a.s = 0 THEN 1 ELSE -1)
    ELSE LET mag == IF a.e < b.e THEN -1
                    ELSE IF a.e > b.e THEN 1
                    ELSE BCmp(a.m, b.m)
         IN  IF a.s = 0 THEN mag ELSE 0 - mag)

FLt(a, b) == FCmp(a, b) < 0
FLe(a, b) == FCmp(a, b) <= 0

\* the float of the integer k >= 0
FromInt(k) == FRound(0, BigOf(k), 0, FALSE)

\* the float of the decimal literal p / q
Dec(p, q) == FDiv(FromInt(p), FromInt(q))

\* ------------------------------------------------------------------------
\* Adwanced_simulation.py: configuration and the RK4 physics engine
\* ------------------------------------------------------------------------
L_P == FromInt(1)
K_INV == FromInt(1)
DT == Dec(1, 100)
TOTAL_STEPS == 3000

\* 1e9, the resistance at or below the boundary, and 1e-9, the factor floor
BigResistance == FromInt(1000000000)
SmallFactor == Dec(1, 1000000000)

\* get_resistance with the quotient of line 24 upside down
get_resistance_Inverted(x0) ==
  Bind(x0, LAMBDA x :
    IF FLe(x, L_P) THEN BigResistance
    ELSE Bind(FDiv(L_P, x), LAMBDA q :
           Bind(FSqrt(FSub(FromInt(1), FMul(q, q))), LAMBDA factor :
             FDiv(IF FLt(factor, SmallFactor) THEN SmallFactor ELSE factor, K_INV))))

\* x > L_P on the path that takes the square root, so L_P / x <= 1 and the
\* radicand is never negative: the except branch is never taken
get_resistance(x0) ==
  Bind(x0, LAMBDA x :
    IF FLe(x, L_P) THEN BigResistance
    ELSE Bind(FDiv(L_P, x), LAMBDA q :
           Bind(FSqrt(FSub(FromInt(1), FMul(q, q))), LAMBDA factor :
             FDiv(K_INV, IF FLt(factor, SmallFactor) THEN SmallFactor ELSE factor))))

v_base == Dec(1, 2)

\* derivatives with the sign of the velocity lost
derivatives_Outward(tt, y, mode) ==
  IF mode = "standard" THEN v_base
  ELSE FDiv(v_base, get_resistance(y))

derivatives(tt, y, mode) ==
  IF mode = "standard" THEN FNeg(v_base)
  ELSE FDiv(FNeg(v_base), get_resistance(y))

\* rk4_step with the weight 2 of k3 lost
rk4_step_SingleK3(tt, y0, h0, mode) ==
  Bind2(y0, h0, LAMBDA y, h :
    Bind(derivatives(tt, y, mode), LAMBDA k1 :
      Bind(derivatives(FAdd(tt, FDiv(h, FromInt(2))),
                       FAdd(y, FDiv(FMul(k1, h), FromInt(2))), mode), LAMBDA k2 :
        Bind(derivatives(FAdd(tt, FDiv(h, FromInt(2))),
                         FAdd(y, FDiv(FMul(k2, h), FromInt(2))), mode), LAMBDA k3 :
          Bind(derivatives(FAdd(tt, h), FAdd(y, FMul(k3, h)), mode), LAMBDA k4 :
            FAdd(y, FMul(FDiv(h, FromInt(6)),
                         FAdd(FAdd(FAdd(k1, FMul(FromInt(2), k2)), k3), k4))))))))

\* rk4_step with the division of dt by 6.0 lost
rk4_step_Undivided(tt, y0, h0, mode) ==
  Bind2(y0, h0, LAMBDA y, h :
    Bind(derivatives(tt, y, mode), LAMBDA k1 :
      Bind(derivatives(FAdd(tt, FDiv(h, FromInt(2))),
                       FAdd(y, FDiv(FMul(k1, h), FromInt(2))), mode), LAMBDA k2 :
        Bind(derivatives(FAdd(tt, FDiv(h, FromInt(2))),
                         FAdd(y, FDiv(FMul(k2, h), FromInt(2))), mode), LAMBDA k3 :
          Bind(derivatives(FAdd(tt, h), FAdd(y, FMul(k3, h)), mode), LAMBDA k4 :
            FAdd(y, FMul(h, FAdd(FAdd(FAdd(k1, FMul(FromInt(2), k2)),
                                      FMul(FromInt(2), k3)), k4))))))))

rk4_step(tt, y0, h0, mode) ==
  Bind2(y0, h0, LAMBDA y, h :
    Bind(derivatives(tt, y, mode), LAMBDA k1 :
      Bind(derivatives(FAdd(tt, FDiv(h, FromInt(2))),
                       FAdd(y, FDiv(FMul(k1, h), FromInt(2))), mode), LAMBDA k2 :
        Bind(derivatives(FAdd(tt, FDiv(h, FromInt(2))),
                         FAdd(y, FDiv(FMul(k2, h), FromInt(2))), mode), LAMBDA k3 :
          Bind(derivatives(FAdd(tt, h), FAdd(y, FMul(k3, h)), mode), LAMBDA k4 :
            FAdd(y, FMul(FDiv(h, FromInt(6)),
                         FAdd(FAdd(FAdd(k1, FMul(FromInt(2), k2)),
                                   FMul(FromInt(2), k3)), k4))))))))

\* ------------------------------------------------------------------------
\* State.  pc, dt, total_steps, iter and t are the like-named values of
\* whichever program runs; the other variables belong to one program each.
\* ------------------------------------------------------------------------
VARIABLES pc, dt, total_steps, iter, t,
          \* Adwanced_simulation.py, run_simulation
          start_x, state_std, state_itlt, time_points, hist_std, hist_itlt,
          rk4_log,
          \* one call of rk4_step
          arg_y, arg_mode, y_next,
          \* itlt_simulation.py, run_simulation
          start_distance, v_infall, x_class, x_itlt,
          time_axis, dist_classical, dist_itlt,
          \* itlt_simulation.py, the curve sampler
          x_factors, t_values, dilation_factors

common == <<pc, dt, total_steps, iter, t>>
rk4vars == <<start_x, state_std, state_itlt, time_points, hist_std, hist_itlt,
             rk4_log>>
stepvars == <<arg_y, arg_mode, y_next>>
eulervars == <<start_distance, v_infall, x_class, x_itlt,
               time_axis, dist_classical, dist_itlt>>
curvevars == <<x_factors, t_values, dilation_factors>>

vars == <<common, rk4vars, stepvars, eulervars, curvevars>>

NoRK4 ==
  /\ start_x = Zero /\ state_std = Zero /\ state_itlt = Zero
  /\ time_points = <<>> /\ hist_std = <<>> /\ hist_itlt = <<>>
  /\ rk4_log = <<>>

NoStep == arg_y = Zero /\ arg_mode = "none" /\ y_next = Zero

NoEuler ==
  /\ start_distance = Zero /\ v_infall = Zero /\ x_class = Zero /\ x_itlt = Zero
  /\ time_axis = <<>> /\ dist_classical = <<>> /\ dist_itlt = <<>>

NoCurve == x_factors = <<>> /\ t_values = <<>> /\ dilation_factors = <<>>

\* ------------------------------------------------------------------------
\* Adwanced_simulation.py: run_simulation
\* ------------------------------------------------------------------------

\* UpdateStd with >= for > on line 84: a landed particle is integrated again
UpdateStd_Reintegrates(tt, s, h) ==
  IF FLe(Zero, s)
  THEN Bind(rk4_step(tt, s, h, "standard"), LAMBDA nxt :
         [x |-> IF FLt(nxt, Zero) THEN Zero ELSE nxt, rk4 |-> TRUE])
  ELSE [x |-> Zero, rk4 |-> FALSE]

\* UpdateItlt without the clamp of line 93
UpdateItlt_Unclamped(tt, s, h) ==
  IF FLt(L_P, s)
  THEN [x |-> rk4_step(tt, s, h, "itlt"), rk4 |-> TRUE]
  ELSE [x |-> L_P, rk4 |-> FALSE]

\* lines 83-88: the Standard particle's update of one iteration; rk4 tells
\* whether rk4_step was invoked
UpdateStd(tt, s, h) ==
  IF FLt(Zero, s)
  THEN Bind(rk4_step(tt, s, h, "standard"), LAMBDA nxt :
         [x |-> IF FLt(nxt, Zero) THEN Zero ELSE nxt, rk4 |-> TRUE])
  ELSE [x |-> Zero, rk4 |-> FALSE]

\* lines 90-95: the ITLT particle's update of one iteration
UpdateItlt(tt, s, h) ==
  IF FLt(L_P, s)
  THEN Bind(rk4_step(tt, s, h, "itlt"), LAMBDA nxt :
         [x |-> IF FLt(nxt, L_P) THEN L_P ELSE nxt, rk4 |-> TRUE])
  ELSE [x |-> L_P, rk4 |-> FALSE]

\* lines 64-76, for a start distance sx, a time step h and n iterations
Start(sx, h, n) ==
  /\ pc = "loop"
  /\ dt = h
  /\ total_steps = n
  /\ iter = 0
  /\ t = Zero
  /\ start_x = sx
  /\ state_std = sx
  /\ state_itlt = sx
  /\ time_points = <<>>
  /\ hist_std = <<>>
  /\ hist_itlt = <<>>
  /\ rk4_log = <<>>
  /\ NoStep /\ NoEuler /\ NoCurve

MaxSteps == 7

StartSet == {Dec(1001, 1000), Dec(3, 2), FromInt(5)}
DtSet == {DT, Dec(7, 10), FromInt(1)}

\* the configurations of the bounded runs: start_distance > boundary_length,
\* dt > 0, step_count > 0
Init == \E sx \in StartSet, h \in DtSet, n \in 1..MaxSteps : Start(sx, h, n)

\* the program as written: start_x = 5.0, DT, TOTAL_STEPS
InitDefault == Start(FromInt(5), DT, TOTAL_STEPS)

\* LoopBody recording after the update instead of before it
LoopBody_RecordsAfter ==
  /\ pc = "loop"
  /\ iter < total_steps
  /\ \E us \in {UpdateStd(t, state_std, dt)}, ui \in {UpdateItlt(t, state_itlt, dt)} :
         /\ time_points' = Append(time_points, t)
         /\ hist_std' = Append(hist_std, us.x)
         /\ hist_itlt' = Append(hist_itlt, ui.x)
         /\ state_std' = us.x
         /\ state_itlt' = ui.x
         /\ rk4_log' = Append(rk4_log, [standard |-> us.rk4, itlt |-> ui.rk4])
  /\ t' = FAdd(t, dt)
  /\ iter' = iter + 1
  /\ UNCHANGED <<pc, dt, total_steps, start_x, stepvars, eulervars, curvevars>>

\* lines 78-97: one iteration of the loop
LoopBody ==
  /\ pc = "loop"
  /\ iter < total_steps
  /\ \E us \in {UpdateStd(t, state_std, dt)}, ui \in {UpdateItlt(t, state_itlt, dt)} :
         /\ time_points' = Append(time_points, t)
         /\ hist_std' = Append(hist_std, state_std)
         /\ hist_itlt' = Append(hist_itlt, state_itlt)
         /\ state_std' = us.x
         /\ state_itlt' = ui.x
         /\ rk4_log' = Append(rk4_log, [standard |-> us.rk4, itlt |-> ui.rk4])
  /\ t' = FAdd(t, dt)
  /\ iter' = iter + 1
  /\ UNCHANGED <<pc, dt, total_steps, start_x, stepvars, eulervars, curvevars>>

\* line 78: the range is exhausted, the program goes on to plot
LoopExit ==
  /\ pc = "loop"
  /\ iter = total_steps
  /\ pc' = "plot"
  /\ UNCHANGED <<dt, total_steps, iter, t, rk4vars, stepvars, eulervars, curvevars>>

Next == LoopBody \/ LoopExit

Spec == Init /\ [][Next]_vars

SpecDefault == InitDefault /\ [][Next]_vars

\* ------------------------------------------------------------------------
\* One call of rk4_step, on arguments drawn from small sets
\* ------------------------------------------------------------------------
StepYs == {Dec(1, 100), Dec(1, 1000), Dec(1001, 1000), Dec(3, 2), FromInt(5)}
StepDts == {DT, Dec(7, 1000), Dec(1, 10), Dec(7, 10), FromInt(1)}
StepTs == {Zero, FromInt(1)}

InitStep ==
  /\ pc = "call"
  /\ t \in StepTs
  /\ dt \in StepDts
  /\ arg_y \in StepYs
  /\ arg_mode \in {"standard", "itlt"}
  /\ y_next = Zero
  /\ total_steps = 0 /\ iter = 0
  /\ NoRK4 /\ NoEuler /\ NoCurve

CallStep ==
  /\ pc = "call"
  /\ y_next' = rk4_step(t, arg_y, dt, arg_mode)
  /\ pc' = "return"
  /\ UNCHANGED <<dt, total_steps, iter, t, arg_y, arg_mode,
                 rk4vars, eulervars, curvevars>>

NextStep == CallStep

SpecStep == InitStep /\ [][NextStep]_vars

\* ------------------------------------------------------------------------
\* itlt_simulation.py: run_simulation (the Euler particle-infall simulation)
\* ------------------------------------------------------------------------
sim_l_p == FromInt(1)
sim_k_inv == FromInt(1)
sim_total_steps == 2000

\* lines 131-134
MoveClassical(x, v, h) ==
  IF FLt(Zero, x) THEN FSub(x, FMul(v, h)) ELSE Zero

\* lines 139-159; the radicand is never negative, the except branch is
\* never taken
MoveItlt(x, v, h) ==
  IF FLt(sim_l_p, x)
  THEN Bind(FDiv(sim_l_p, x), LAMBDA q :
         Bind(FSqrt(FSub(FromInt(1), FMul(q, q))), LAMBDA root :
           LET denominator     == IF FLt(root, SmallFactor) THEN SmallFactor ELSE root
               time_resistance == FDiv(sim_k_inv, denominator)
               v_observed      == FDiv(v, time_resistance)
           IN  FSub(x, FMul(v_observed, h))))
  ELSE sim_l_p

\* lines 100-116, for a start distance sd, a time step h, an infall speed v
\* and n iterations
StartEuler(sd, h, v, n) ==
  /\ pc = "loop"
  /\ dt = h
  /\ total_steps = n
  /\ iter = 0
  /\ t = Zero
  /\ start_distance = sd
  /\ v_infall = v
  /\ x_class = sd
  /\ x_itlt = sd
  /\ time_axis = <<>>
  /\ dist_classical = <<>>
  /\ dist_itlt = <<>>
  /\ NoRK4 /\ NoStep /\ NoCurve

EulerDts == {Dec(1, 100), Dec(7, 10)}
EulerSpeeds == {Dec(1, 2), FromInt(1)}

\* the program as written (5.0, 0.01, 0.5, 2000 iterations), and bounded
\* runs of other configurations
InitEuler ==
  \/ StartEuler(FromInt(5), Dec(1, 100), Dec(1, 2), sim_total_steps)
  \/ \E sd \in StartSet, h \in EulerDts, v \in EulerSpeeds, n \in 1..MaxSteps :
       StartEuler(sd, h, v, n)

\* lines 120-161: one iteration of the loop
EulerBody ==
  /\ pc = "loop"
  /\ iter < total_steps
  /\ time_axis' = Append(time_axis, t)
  /\ dist_classical' = Append(dist_classical, x_class)
  /\ dist_itlt' = Append(dist_itlt, x_itlt)
  /\ x_class' = MoveClassical(x_class, v_infall, dt)
  /\ x_itlt' = MoveItlt(x_itlt, v_infall, dt)
  /\ t' = FAdd(t, dt)
  /\ iter' = iter + 1
  /\ UNCHANGED <<pc, dt, total_steps, start_distance, v_infall,
                 rk4vars, stepvars, curvevars>>

EulerExit ==
  /\ pc = "loop"
  /\ iter = total_steps
  /\ pc' = "plot"
  /\ UNCHANGED <<dt, total_steps, iter, t, rk4vars, stepvars, eulervars, curvevars>>

NextEuler == EulerBody \/ EulerExit

SpecEuler == InitEuler /\ [][NextEuler]_vars

\* ------------------------------------------------------------------------
\* itlt_simulation.py: the dilation curve sampler (module level)
\* ------------------------------------------------------------------------

\* 5.391247e-44: the float nearest to 5391247 / 10^50
t_p ==
  Bind(BMul(BMul(BigOf(1000000000), BigOf(100000000)), BigOf(100000000)),
       LAMBDA p25 :
    Bind(BMul(p25, p25), LAMBDA p50 :
      Bind(BDivMod(ShiftLeft(BigOf(5391247), BitLen(p50) + 60), p50), LAMBDA dm :
        FRound(0, dm.q, 0 - (BitLen(p50) + 60), Len(dm.r) # 0))))

k_inv == t_p

\* float('inf'): the one value with an empty significand and exponent 1
Inf == [s |-> 0, m |-> <<>>, e |-> 1]

calculate_time_dilation(x_factor) ==
  IF FLe(x_factor, FromInt(1)) THEN Inf
  ELSE Bind(FDiv(FromInt(1), x_factor), LAMBDA q :
         FDiv(k_inv, FSqrt(FSub(FromInt(1), FMul(q, q)))))

NumPerBand == 50

\* lines 43-45: the ends of the three bands
Band1Start == Dec(1001, 1000)
Band2Start == Dec(11, 10)
Band3Start == Dec(5, 2)
Band3Stop == FromInt(10)

\* linspace with endpoint=False: num steps to stop, stop itself not sampled
linspace_NoEndpoint(start, stop, num) ==
  Bind(FDiv(FSub(stop, start), FromInt(num)), LAMBDA step :
    [i \in 1..num |-> FAdd(FMul(FromInt(i - 1), step), start)] \o <<>>)

\* numpy.linspace(start, stop, num): i * step + start, the last sample set
\* to stop
linspace(start, stop, num) ==
  Bind(FDiv(FSub(stop, start), FromInt(num - 1)), LAMBDA step :
    [i \in 1..num |->
       IF i = num THEN stop ELSE FAdd(FMul(FromInt(i - 1), step), start)] \o <<>>)

\* numpy.sort: the samples in ascending order
sort(a0) ==
  Bind(a0, LAMBDA a :
    Bind([i \in 1..Len(a) |->
            Cardinality({j \in 1..Len(a) :
               FLt(a[j], a[i]) \/ (a[j] = a[i] /\ j < i)}) + 1] \o <<>>,
         LAMBDA rank :
      [k \in 1..Len(a) |-> a[CHOOSE i \in 1..Len(a) : rank[i] = k]] \o <<>>))

InitCurve ==
  /\ pc = "sample"
  /\ x_factors = <<>>
  /\ t_values = <<>>
  /\ dilation_factors = <<>>
  /\ dt = Zero /\ total_steps = 0 /\ iter = 0 /\ t = Zero
  /\ NoRK4 /\ NoStep /\ NoEuler

\* lines 42-47
Sample ==
  /\ pc = "sample"
  /\ x_factors' = sort(linspace(Band1Start, Band2Start, NumPerBand)
                       \o linspace(Band2Start, Band3Start, NumPerBand)
                       \o linspace(Band3Start, Band3Stop, NumPerBand))
  /\ pc' = "dilate"
  /\ UNCHANGED <<dt, total_steps, iter, t, t_values, dilation_factors,
                 rk4vars, stepvars, eulervars>>

\* line 49: one element of the comprehension
Dilate ==
  /\ pc = "dilate"
  /\ Len(t_values) < Len(x_factors)
  /\ t_values' =
       Append(t_values, calculate_time_dilation(x_factors[Len(t_values) + 1]))
  /\ UNCHANGED <<common, x_factors, dilation_factors, rk4vars, stepvars, eulervars>>

DilateDone ==
  /\ pc = "dilate"
  /\ Len(t_values) = Len(x_factors)
  /\ pc' = "ratio"
  /\ UNCHANGED <<dt, total_steps, iter, t, curvevars, rk4vars, stepvars, eulervars>>

\* line 50: one element of the comprehension
Ratio ==
  /\ pc = "ratio"
  /\ Len(dilation_factors) < Len(t_values)
  /\ \E tv \in {t_values[Len(dilation_factors) + 1]} :
       dilation_factors' =
         Append(dilation_factors, IF tv = Inf THEN Inf ELSE FDiv(tv, t_p))
  /\ UNCHANGED <<common, x_factors, t_values, rk4vars, stepvars, eulervars>>

\* lines 53-58: the table is complete and is exported
Export ==
  /\ pc = "ratio"
  /\ Len(dilation_factors) = Len(t_values)
  /\ pc' = "export"
  /\ UNCHANGED <<dt, total_steps, iter, t, curvevars, rk4vars, stepvars, eulervars>>

NextCurve == Sample \/ Dilate \/ DilateDone \/ Ratio \/ Export

SpecCurve == InitCurve /\ [][NextCurve]_vars

\* ------------------------------------------------------------------------
\* Properties of Adwanced_simulation.py, run_simulation, over the bounded
\* configurations of Spec
\* ------------------------------------------------------------------------

\* C1.  Boundary containment: every value recorded for the ITLT particle is
\* >= L_P, and every value recorded for the Standard particle is >= 0.
C1_BoundaryContainment ==
  /\ \A i \in 1..Len(hist_itlt) : FLe(L_P, hist_itlt[i])
  /\ \A i \in 1..Len(hist_std) : FLe(Zero, hist_std[i])

\* rk4_step carried each particle below its floor, and the floor was recorded
C1_BothClamped ==
  /\ \E i \in 1..(Len(hist_itlt) - 1) :
       /\ FLt(L_P, hist_itlt[i])
       /\ FLt(rk4_step(time_points[i], hist_itlt[i], dt, "itlt"), L_P)
       /\ hist_itlt[i + 1] = L_P
  /\ \E i \in 1..(Len(hist_std) - 1) :
       /\ FLt(Zero, hist_std[i])
       /\ FLt(rk4_step(time_points[i], hist_std[i], dt, "standard"), Zero)
       /\ hist_std[i + 1] = Zero

\* C2.  Monotonicity: both recorded position sequences are non-increasing
\* from each index to the next, the step of a clamp included.
C2_NonIncreasing ==
  \A i \in 1..(Len(hist_std) - 1) :
    /\ FLe(hist_std[i + 1], hist_std[i])
    /\ FLe(hist_itlt[i + 1], hist_itlt[i])

\* each particle fell onto its floor and then stayed for a step
C2_FellThenRested ==
  /\ \E i \in 1..(Len(hist_std) - 2) :
       /\ FLt(hist_std[i + 1], hist_std[i])
       /\ hist_std[i + 1] = Zero
       /\ hist_std[i + 2] = Zero
  /\ \E i \in 1..(Len(hist_itlt) - 2) :
       /\ FLt(hist_itlt[i + 1], hist_itlt[i])
       /\ hist_itlt[i + 1] = L_P
       /\ hist_itlt[i + 2] = L_P

\* C3.  Freeze/crash permanence: once the Standard position is 0, or the
\* ITLT position is L_P, every later value of that particle is that same
\* value, and no iteration from there on invokes rk4_step for that particle.
C3_Permanence ==
  /\ \A i \in 1..Len(hist_std) :
       hist_std[i] = Zero =>
         /\ \A j \in i..Len(hist_std) : hist_std[j] = Zero /\ ~rk4_log[j].standard
         /\ state_std = Zero
  /\ \A i \in 1..Len(hist_itlt) :
       hist_itlt[i] = L_P =>
         /\ \A j \in i..Len(hist_itlt) : hist_itlt[j] = L_P /\ ~rk4_log[j].itlt
         /\ state_itlt = L_P

\* each particle was integrated onto its floor and two iterations have run
\* with it there
C3_TwoIterationsStopped ==
  /\ \E i \in 2..(Len(hist_std) - 1) :
       rk4_log[i - 1].standard /\ hist_std[i] = Zero /\ hist_std[i + 1] = Zero
  /\ \E i \in 2..(Len(hist_itlt) - 1) :
       rk4_log[i - 1].itlt /\ hist_itlt[i] = L_P /\ hist_itlt[i + 1] = L_P

\* The loop records before it updates and runs total_steps times: the three
\* sequences have one sample per iteration run, the first positions are
\* start_x, each later position is the update of the one before, the
\* current state is the update of the last sample and is in no sequence, and
\* at the plot every iteration has run.
RecordsBeforeUpdate ==
  /\ Len(time_points) = iter /\ Len(hist_std) = iter /\ Len(hist_itlt) = iter
  /\ iter <= total_steps
  /\ pc = "plot" => iter = total_steps
  /\ iter = 0 => state_std = start_x /\ state_itlt = start_x
  /\ iter > 0 =>
       /\ hist_std[1] = start_x /\ hist_itlt[1] = start_x
       /\ state_std = UpdateStd(time_points[iter], hist_std[iter], dt).x
       /\ state_itlt = UpdateItlt(time_points[iter], hist_itlt[iter], dt).x
  /\ \A i \in 1..(iter - 1) :
       /\ hist_std[i + 1] = UpdateStd(time_points[i], hist_std[i], dt).x
       /\ hist_itlt[i + 1] = UpdateItlt(time_points[i], hist_itlt[i], dt).x

\* C4, as stated.  The loop runs exactly step_count iterations and records
\* before it updates, and the sample at (zero-based) index i holds the time
\* i * dt.
C4_TimeIsProduct ==
  /\ RecordsBeforeUpdate
  /\ \A i \in 1..Len(time_points) : time_points[i] = FMul(FromInt(i - 1), dt)

\* C4, amended.  The loop runs exactly step_count iterations and records
\* before it updates, and the sample at (zero-based) index i holds the time
\* that i additions of dt to 0.0 give.
C4_TimeIsSum ==
  /\ RecordsBeforeUpdate
  /\ \A i \in 1..Len(time_points) :
       time_points[i] = IF i = 1 THEN Zero ELSE FAdd(time_points[i - 1], dt)

\* a run of several iterations is over, its last update moved both
\* particles, and the sum of the dt is not the product
C4_RunComplete ==
  /\ pc = "plot"
  /\ Len(hist_std) = total_steps
  /\ total_steps > 1
  /\ state_std # hist_std[total_steps]
  /\ state_itlt # hist_itlt[total_steps]
  /\ time_points[total_steps] # FMul(FromInt(total_steps - 1), dt)

\* C10.  The ITLT particle never falls faster than the Standard particle:
\* the resistance at every recorded position is >= K_INV, no ITLT update
\* moves inward by more than v_base * dt, and at every index the ITLT
\* position is >= the Standard position.
C10_NeverFaster ==
  /\ \A i \in 1..Len(hist_itlt) :
       /\ FLe(hist_std[i], hist_itlt[i])
       /\ FLe(K_INV, get_resistance(hist_itlt[i]))
       /\ FLe(K_INV, get_resistance(hist_std[i]))
  /\ \A i \in 1..(Len(hist_itlt) - 1) :
       FLe(FSub(hist_itlt[i], hist_itlt[i + 1]), FMul(v_base, dt))

\* the ITLT particle moved inward against a resistance above K_INV and is
\* behind the Standard particle
C10_Slowed ==
  \E i \in 1..(Len(hist_itlt) - 1) :
    /\ FLt(K_INV, get_resistance(hist_itlt[i]))
    /\ FLt(hist_itlt[i + 1], hist_itlt[i])
    /\ FLt(hist_std[i + 1], hist_itlt[i + 1])

\* ------------------------------------------------------------------------
\* Properties of one call of rk4_step (SpecStep)
\* ------------------------------------------------------------------------

\* C5, as stated.  rk4_step(t, y, dt, 'standard') returns exactly
\* y - v_base * dt, for every y, t and dt.
C5_EqualsEuler ==
  (pc = "return" /\ arg_mode = "standard") =>
    y_next = FSub(arg_y, FMul(v_base, dt))

\* C5, amended.  rk4_step(t, y, dt, 'standard') returns y + (dt / 6.0) * -3.0
\* whatever t is, the four stage derivatives all being -v_base; for dt = DT
\* that is exactly y - v_base * dt.
C5_StandardStep ==
  (pc = "return" /\ arg_mode = "standard") =>
    /\ y_next = FAdd(arg_y, FMul(FDiv(dt, FromInt(6)), FNeg(FromInt(3))))
    /\ dt = DT => y_next = FSub(arg_y, FMul(v_base, dt))

\* a standard step of DT has returned, at a time other than 0
C5_SteppedDefault ==
  /\ pc = "return"
  /\ arg_mode = "standard"
  /\ dt = DT
  /\ t # Zero
  /\ FLt(y_next, arg_y)

\* ------------------------------------------------------------------------
\* Properties of Adwanced_simulation.py as configured (SpecDefault).  The
\* sequences only grow, so a property of every sample is stated of the
\* newest one, at one-based index Len(hist_std).
\* ------------------------------------------------------------------------

\* C6, as stated.  The Standard sequence is strictly positive at every
\* (zero-based) index below 1000 and exactly 0.0 at every index from 1000
\* to 2999.
C6_ZeroFrom1000 ==
  /\ pc = "plot" => Len(hist_std) = TOTAL_STEPS
  /\ \A i \in {Len(hist_std)} \ {0} :
       /\ i <= 1000 => FLt(Zero, hist_std[i])
       /\ i >= 1001 => hist_std[i] = Zero

\* C6, amended.  The Standard sequence is strictly positive at every
\* (zero-based) index up to and including 1000 and exactly 0.0 at every
\* index from 1001 to 2999.
C6_ZeroFrom1001 ==
  /\ pc = "plot" => Len(hist_std) = TOTAL_STEPS
  /\ \A i \in {Len(hist_std)} \ {0} :
       /\ i <= 1001 => FLt(Zero, hist_std[i])
       /\ i >= 1002 => hist_std[i] = Zero

\* index 1000 holds a positive residue below 1e-9 and index 1001 holds 0.0
C6_Landed ==
  /\ Len(hist_std) >= 1002
  /\ FLt(Zero, hist_std[1001])
  /\ FLt(hist_std[1001], SmallFactor)
  /\ hist_std[1002] = Zero

\* ------------------------------------------------------------------------
\* Properties of the dilation curve sampler (SpecCurve)
\* ------------------------------------------------------------------------

\* C7.  The sampler produces exactly 150 rows, 50 distance factors in each
\* of the bands [1.001, 1.1], [1.1, 2.5] and [2.5, 10.0], increasing within
\* a band, in ascending order overall, with 1.1 and 2.5 twice each, the
\* first 1.001 and the last 10.0.
C7_Rows ==
  /\ pc # "sample" =>
       /\ Len(x_factors) = 150
       /\ \A i \in 1..149 : FLe(x_factors[i], x_factors[i + 1])
       /\ \A i \in 1..149 : i % NumPerBand # 0 => FLt(x_factors[i], x_factors[i + 1])
       /\ x_factors[1] = Band1Start
       /\ x_factors[150] = Band3Stop
       /\ {i \in 1..150 : x_factors[i] = Band2Start} = {NumPerBand, NumPerBand + 1}
       /\ {i \in 1..150 : x_factors[i] = Band3Start} = {2 * NumPerBand, 2 * NumPerBand + 1}
  /\ pc = "export" => Len(t_values) = 150 /\ Len(dilation_factors) = 150

\* the table is exported, the band ends doubled
C7_Exported ==
  /\ pc = "export"
  /\ Len(dilation_factors) = 150
  /\ x_factors[NumPerBand] = x_factors[NumPerBand + 1]
  /\ x_factors[2 * NumPerBand] = x_factors[2 * NumPerBand + 1]

\* ------------------------------------------------------------------------
\* Properties of itlt_simulation.py, run_simulation (SpecEuler).  The
\* sequences only grow, so a property of every sample is stated of the
\* newest one, at one-based index Len(dist_itlt).
\* ------------------------------------------------------------------------

\* C8.  Every value appended to dist_itlt is >= l_p and every value
\* appended to dist_classical is >= 0.
C8_EulerContainment ==
  \A i \in {Len(dist_itlt)} \ {0} :
    /\ FLe(sim_l_p, dist_itlt[i])
    /\ FLe(Zero, dist_classical[i])

\* C9.  Both recorded sequences are non-increasing from each index to the
\* next.
C9_EulerNonIncreasing ==
  \A i \in {Len(dist_itlt)} \ {0, 1} :
    /\ FLe(dist_classical[i], dist_classical[i - 1])
    /\ FLe(dist_itlt[i], dist_itlt[i - 1])
====
